---- MODULE Spec2Model ----
(***************************************************************************)
(* fresh-cli: one invocation of the command line tool.                     *)
(*                                                                         *)
(* The process starts with its command line parsed by click (api key,      *)
(* domain, subcommand and its raw arguments), runs the group callback      *)
(* `cli`, converts the subcommand's arguments and then runs the body of    *)
(* `list`, `view` or `status`, which talks to the server through           *)
(* FreshserviceClient.  The server's answer is the environment's choice.   *)
(*                                                                         *)
(* Python values: an Optional value is None (the empty tuple) or Some(v)   *)
(* (a one-element tuple); a dict is a function whose DOMAIN is the set of  *)
(* keys present; a str whose characters matter is a sequence of            *)
(* one-character strings; a raised exception is a record e with e.type     *)
(* and e.detail.                                                           *)
(***************************************************************************)
EXTENDS Integers, Sequences, FiniteSets, TLC

VARIABLES
    api_key,     \* --api-key / FRESHSERVICE_API_KEY as click hands it to cli
    domain,      \* --domain / FRESHSERVICE_DOMAIN
    command,     \* the subcommand named on the command line
    args,        \* the subcommand's raw arguments
    pc,          \* "start" | "dispatch" | "done"
    client,      \* ctx.obj["client"]: None until FreshserviceClient is built
    body_ran,    \* TRUE once the body of a subcommand has started
    requests,    \* the HTTP requests issued so far, in order
    response,    \* the answer to the last request, None before it
    stdout,      \* what click.echo printed, in order
    stderr,      \* the error the process printed, None if none
    exit_code    \* the process exit code, meaningful once pc = "done"

vars == <<api_key, domain, command, args, pc, client, body_ran, requests,
          response, stdout, stderr, exit_code>>

-----------------------------------------------------------------------------
(* Bounds of the model *)

MaxTickets == 3       \* longest `tickets` array the server returns
MaxLimit == 2         \* largest explicit --limit besides the default
MaxTicketId == 2      \* ticket ids given to view / status
MaxResponderId == 2   \* agent ids a ticket can be assigned to
SubjectBase == 38     \* ticket i of a listing has a subject of SubjectBase + i characters

-----------------------------------------------------------------------------
(* Python values *)

None == <<>>
Some(v) == <<v>>

\* bool(x) of an Optional[str]
TruthyStr(o) == o # None /\ o[1] # ""

\* bool(x) of an Optional[int]
TruthyInt(o) == o # None /\ o[1] # 0

\* dict.get(key, default)
Get(data, key, default) == IF key \in DOMAIN data THEN data[key] ELSE default

Min(a, b) == IF a < b THEN a ELSE b
Max(a, b) == IF a > b THEN a ELSE b

\* s[:n], with Python's clamping and its meaning of a negative n
Slice(s, n) ==
    IF n >= 0 THEN SubSeq(s, 1, Min(n, Len(s)))
              ELSE SubSeq(s, 1, Max(Len(s) + n, 0))

Digits == <<"0", "1", "2", "3", "4", "5", "6", "7", "8", "9">>

\* str(n) of a one-digit number
Str(n) == Digits[n + 1]

Ellipsis == <<".", ".", ".">>

Spaces(n) == [i \in 1..n |-> " "]

\* f"{s:<width}": pad on the right, never cut
PadRight(s, width) == s \o Spaces(Max(width - Len(s), 0))

-----------------------------------------------------------------------------
(* Exceptions and results *)

Ok(v) == [ok |-> TRUE, value |-> v]
Raise(e) == [ok |-> FALSE, exc |-> e]

HTTPStatusError(resp) == [type |-> "HTTPStatusError", detail |-> resp.phrase]
ConnectError == [type |-> "ConnectError", detail |-> "connection failed"]
JSONDecodeError == [type |-> "JSONDecodeError", detail |-> "Expecting value"]
KeyError(key) == [type |-> "KeyError", detail |-> key]

-----------------------------------------------------------------------------
(* api.py: Ticket *)

Ticket(id, subject, description, st, priority, created, updated, req, resp) ==
    [id |-> id, subject |-> subject, description |-> description,
     status |-> st, priority |-> priority, created_at |-> created,
     updated_at |-> updated, requester_id |-> req, responder_id |-> resp]

\* from_dict that does not pass responder_id on
from_dictNoResponder(data) ==
    Ticket(data["id"],
           Get(data, "subject", <<>>),
           Get(data, "description", ""),
           Get(data, "status", 0),
           Get(data, "priority", 0),
           Get(data, "created_at", ""),
           Get(data, "updated_at", ""),
           Get(data, "requester_id", 0),
           None)

\* Ticket.from_dict on a dict that has an "id"
from_dict(data) ==
    Ticket(data["id"],
           Get(data, "subject", <<>>),
           Get(data, "description", ""),
           Get(data, "status", 0),
           Get(data, "priority", 0),
           Get(data, "created_at", ""),
           Get(data, "updated_at", ""),
           Get(data, "requester_id", 0),
           Get(data, "responder_id", None))

-----------------------------------------------------------------------------
(* api.py: FreshserviceClient *)

FreshserviceClient(key, dom) ==
    [api_key |-> key,
     base_url |-> <<"https://", dom, "/api/v2">>,
     auth |-> <<key, "X">>,
     timeout |-> 30]

\* Response.raise_for_status: an exception unless the status is 2xx
raise_for_status(resp) ==
    IF resp.code \in 200..299 THEN Ok(resp) ELSE Raise(HTTPStatusError(resp))

\* Response.json
json(resp) ==
    IF resp.body.json THEN Ok(resp.body.data) ELSE Raise(JSONDecodeError)

\* What self.client.get / self.client.put gives for the server's answer
Exchange(resp) ==
    IF resp.kind = "network_error" THEN Raise(ConnectError) ELSE Ok(resp)

list_tickets_request(c) ==
    [method |-> "GET", base_url |-> c.base_url, path |-> "/tickets",
     ticket_id |-> None, json |-> None]

\* list_tickets without its status filter
SelectTicketsNoStatusFilter(tickets, filters, limit) ==
    LET ByPriority(t) == t.priority = filters["priority"]
        t2 == IF "priority" \in DOMAIN filters
                  THEN SelectSeq(tickets, ByPriority) ELSE tickets
    IN  Slice(t2, limit)

\* list_tickets truncating before it filters
SelectTicketsTruncateFirst(tickets, filters, limit) ==
    LET ByStatus(t) == t.status = filters["status"]
        ByPriority(t) == t.priority = filters["priority"]
        t0 == Slice(tickets, limit)
        t1 == IF "status" \in DOMAIN filters
                  THEN SelectSeq(t0, ByStatus) ELSE t0
    IN  IF "priority" \in DOMAIN filters
            THEN SelectSeq(t1, ByPriority) ELSE t1

\* The filtering and truncation of list_tickets
SelectTickets(tickets, filters, limit) ==
    LET ByStatus(t) == t.status = filters["status"]
        ByPriority(t) == t.priority = filters["priority"]
        t1 == IF "status" \in DOMAIN filters
                  THEN SelectSeq(tickets, ByStatus) ELSE tickets
        t2 == IF "priority" \in DOMAIN filters
                  THEN SelectSeq(t1, ByPriority) ELSE t1
    IN  Slice(t2, limit)

\* FreshserviceClient.list_tickets, given the server's answer to its GET
list_tickets(resp, filters, limit) ==
    LET sent == Exchange(resp) IN
    IF ~sent.ok THEN sent ELSE
    LET checked == raise_for_status(resp) IN
    IF ~checked.ok THEN checked ELSE
    LET parsed == json(resp) IN
    IF ~parsed.ok THEN parsed ELSE
    LET raw == Get(parsed.value, "tickets", <<>>) IN
    IF \E i \in 1..Len(raw) : "id" \notin DOMAIN raw[i]
        THEN Raise(KeyError("id"))
        ELSE Ok(SelectTickets([i \in 1..Len(raw) |-> from_dict(raw[i])],
                              filters, limit))

get_ticket_request(c, ticket_id) ==
    [method |-> "GET", base_url |-> c.base_url, path |-> "/tickets/{id}",
     ticket_id |-> Some(ticket_id), json |-> None]

\* FreshserviceClient.get_ticket, given the server's answer to its GET
get_ticket(resp) ==
    LET sent == Exchange(resp) IN
    IF ~sent.ok THEN sent ELSE
    LET checked == raise_for_status(resp) IN
    IF ~checked.ok THEN checked ELSE
    LET parsed == json(resp) IN
    IF ~parsed.ok THEN parsed ELSE
    IF "ticket" \notin DOMAIN parsed.value THEN Raise(KeyError("ticket")) ELSE
    IF "id" \notin DOMAIN parsed.value["ticket"] THEN Raise(KeyError("id"))
    ELSE Ok(from_dict(parsed.value["ticket"]))

update_ticket_status_request(c, ticket_id, status_code) ==
    [method |-> "PUT", base_url |-> c.base_url, path |-> "/tickets/{id}",
     ticket_id |-> Some(ticket_id), json |-> Some([status |-> status_code])]

\* FreshserviceClient.update_ticket_status, given the server's answer to its PUT
update_ticket_status(resp) ==
    LET sent == Exchange(resp) IN
    IF ~sent.ok THEN sent ELSE
    LET checked == raise_for_status(resp) IN
    IF ~checked.ok THEN checked ELSE Ok(None)

-----------------------------------------------------------------------------
(* __main__.py: what the commands print and how the process ends *)

StatusNames == {"open", "pending", "resolved", "closed"}

\* status_map of list and of status: name to code
status_map == [n \in StatusNames |->
    CASE n = "open" -> 2 [] n = "pending" -> 3
      [] n = "resolved" -> 4 [] n = "closed" -> 5]

\* the display dict of list and of view, with its .get default
status_display(code) ==
    CASE code = 2 -> "Open" [] code = 3 -> "Pending"
      [] code = 4 -> "Resolved" [] code = 5 -> "Closed"
      [] OTHER -> Str(code)

priority_display(code) ==
    CASE code = 1 -> "Low" [] code = 2 -> "Medium"
      [] code = 3 -> "High" [] code = 4 -> "Urgent"
      [] OTHER -> Str(code)

\* the subject cut as soon as it is longer than the 37 characters kept
ShownSubjectCutAt37(subject) ==
    IF Len(subject) > 37 THEN Slice(subject, 37) \o Ellipsis ELSE subject

\* ticket.subject[:37] + "..." if len(ticket.subject) > 40 else ticket.subject
ShownSubject(subject) ==
    IF Len(subject) > 40 THEN Slice(subject, 37) \o Ellipsis ELSE subject

\* one line of the table of list
Row(ticket) ==
    [kind |-> "row",
     id |-> ticket.id,
     subject |-> PadRight(ShownSubject(ticket.subject), 40),
     status |-> status_display(ticket.status),
     priority |-> priority_display(ticket.priority)]

TextLine(text) == [kind |-> "text", text |-> text]

TableHeader ==
    "ID         Subject                                    Status       Priority   "

\* everything list prints for the tickets it got
ListOutput(tickets) ==
    IF tickets = <<>>
        THEN <<TextLine("No tickets found.")>>
        ELSE <<TextLine(TableHeader), [kind |-> "rule", text |-> "-", times |-> 72]>>
             \o [i \in 1..Len(tickets) |-> Row(tickets[i])]

\* assignee = ticket.responder_id if ticket.responder_id else "Unassigned"
Assignee(ticket) ==
    IF TruthyInt(ticket.responder_id)
        THEN Str(ticket.responder_id[1])
        ELSE "Unassigned"

\* everything view prints for the ticket it got
ViewOutput(ticket) ==
    <<[kind |-> "detail",
       id |-> ticket.id,
       subject |-> ticket.subject,
       description |-> ticket.description,
       status |-> status_display(ticket.status),
       priority |-> priority_display(ticket.priority),
       created_at |-> ticket.created_at,
       updated_at |-> ticket.updated_at,
       requester_id |-> ticket.requester_id,
       assignee |-> Assignee(ticket)]>>

\* the confirmation line of status
Confirmation(ticket_id, name) ==
    [kind |-> "confirmation", id |-> ticket_id, status |-> name]

\* click.UsageError: message on stderr, exit code 2
UsageError(message) ==
    [kind |-> "UsageError", message |-> message, reason |-> None]

\* click.ClickException(f"{message}: {e}"): "Error: ..." on stderr, exit code 1
ClickException(message, e) ==
    [kind |-> "ClickException", message |-> message, reason |-> Some(e)]

\* an exception nobody caught leaves cli(): the interpreter prints the
\* traceback, whose last line is the exception, and exits with code 1
Traceback(e) ==
    [kind |-> "Traceback", message |-> "Traceback (most recent call last)",
     reason |-> Some(e)]

\* the body of list after the filters are built: print, or let the
\* exception of list_tickets leave the command
ListOutcome(result) ==
    IF result.ok
        THEN [stdout |-> ListOutput(result.value), stderr |-> None,
              exit_code |-> 0]
        ELSE [stdout |-> <<>>, stderr |-> Traceback(result.exc),
              exit_code |-> 1]

\* view whose error message leaves the exception out
ViewOutcomeNoReason(result) ==
    IF result.ok
        THEN [stdout |-> ViewOutput(result.value), stderr |-> None,
              exit_code |-> 0]
        ELSE [stdout |-> <<>>,
              stderr |-> [kind |-> "ClickException",
                          message |-> "Failed to retrieve ticket",
                          reason |-> None],
              exit_code |-> 1]

\* the body of view: try get_ticket, except Exception -> ClickException
ViewOutcome(result) ==
    IF result.ok
        THEN [stdout |-> ViewOutput(result.value), stderr |-> None,
              exit_code |-> 0]
        ELSE [stdout |-> <<>>,
              stderr |-> ClickException("Failed to retrieve ticket", result.exc),
              exit_code |-> 1]

\* status that prints its confirmation before the update is made
StatusOutcomeEchoFirst(result, ticket_id, name) ==
    IF result.ok
        THEN [stdout |-> <<Confirmation(ticket_id, name)>>, stderr |-> None,
              exit_code |-> 0]
        ELSE [stdout |-> <<Confirmation(ticket_id, name)>>,
              stderr |-> ClickException("Failed to update ticket status",
                                        result.exc),
              exit_code |-> 1]

\* the body of status: try update + echo, except Exception -> ClickException
StatusOutcome(result, ticket_id, name) ==
    IF result.ok
        THEN [stdout |-> <<Confirmation(ticket_id, name)>>, stderr |-> None,
              exit_code |-> 0]
        ELSE [stdout |-> <<>>,
              stderr |-> ClickException("Failed to update ticket status",
                                        result.exc),
              exit_code |-> 1]

\* `if api_key is None`: an empty key passes
ApiKeyIsNone(key) == key = None

\* `if not api_key` of cli
ApiKeyMissing(key) == ~TruthyStr(key)

\* filters of list: "status" and "priority" are set only when given
BuildFilters(status_arg, priority_arg) ==
    (IF TruthyStr(status_arg)
        THEN "status" :> status_map[status_arg[1]] ELSE <<>>)
    @@
    (IF TruthyInt(priority_arg)
        THEN "priority" :> priority_arg[1] ELSE <<>>)

\* the request sent again after the first attempt
IssueWithRetry(reqs, req) == Append(Append(reqs, req), req)

\* self.client.get(...) / self.client.put(...): one request goes out
Issue(reqs, req) == Append(reqs, req)

-----------------------------------------------------------------------------
(* The command line *)

ApiKeys == {None, Some(""), Some("secret")}

Domains == {"freshservice.com"}

DefaultLimit == 20

Limits == (-1)..MaxLimit \cup {DefaultLimit}

StatusArgs == {Some(n) : n \in StatusNames \cup {"bogus"}}

ListArgs ==
    [status : {None} \cup StatusArgs,
     priority : {None} \cup {Some(p) : p \in 0..5},
     limit : Limits]

\* a ticket_id that is not an integer is None here
TicketIdArgs == {None} \cup {Some(i) : i \in 1..MaxTicketId}

ViewArgs == [ticket_id : TicketIdArgs]

StatusCmdArgs == [ticket_id : TicketIdArgs, status : StatusArgs]

\* click.Choice([...]) on an option that may be absent
ChoiceOk(a) == IF a = None THEN TRUE ELSE a[1] \in StatusNames

\* click.IntRange(1, 4) on an option that may be absent
IntRangeOk(a) == IF a = None THEN TRUE ELSE a[1] \in 1..4

\* the type conversion click does for the subcommand's parameters
ArgsValid ==
    CASE command = "list" -> ChoiceOk(args.status) /\ IntRangeOk(args.priority)
      [] command = "view" -> args.ticket_id # None
      [] command = "status" ->
            args.ticket_id # None /\ ChoiceOk(args.status)

-----------------------------------------------------------------------------
(* The server *)

NotJson == [json |-> FALSE, data |-> <<>>]
JsonBody(data) == [json |-> TRUE, data |-> data]

HttpResponse(code, phrase, body) ==
    [kind |-> "http", code |-> code, phrase |-> phrase, body |-> body]

NetworkError ==
    [kind |-> "network_error", code |-> 0, phrase |-> "", body |-> NotJson]

\* answers that are not 2xx, and the request that got no answer
FailedResponses ==
    {NetworkError,
     HttpResponse(302, "302 Found", NotJson),
     HttpResponse(404, "404 Not Found", NotJson),
     HttpResponse(500, "500 Internal Server Error", NotJson)}

TicketStatuses == {2, 3, 4, 5}
TicketPriorities == {1, 2}

\* the subject of ticket i: SubjectBase + i characters
SubjectOf(i) == [k \in 1..(SubjectBase + i) |-> Digits[(k % 10) + 1]]

RawListTicket(i, s, p) ==
    [id |-> i, subject |-> SubjectOf(i), status |-> s, priority |-> p]

\* the `tickets` arrays the server may return
TicketLists ==
    UNION { { [i \in 1..n |-> RawListTicket(i, f[i][1], f[i][2])] :
              f \in [1..n -> TicketStatuses \X TicketPriorities] } :
            n \in 0..MaxTickets }

ListResponses ==
    FailedResponses
    \cup {HttpResponse(200, "200 OK", NotJson),
          HttpResponse(200, "200 OK", JsonBody(<<>>))}
    \cup {HttpResponse(200, "200 OK", JsonBody([tickets |-> l])) :
          l \in TicketLists}

\* the `ticket` objects the server may return for ticket i
RawViewTickets(i) ==
    LET base(s) == [id |-> i, subject |-> SubjectOf(i),
                    description |-> "text", status |-> s, priority |-> 1,
                    created_at |-> "2024-01-01", updated_at |-> "2024-01-02",
                    requester_id |-> 1]
    IN  {base(s) : s \in {2, 5, 7}}
        \cup {base(s) @@ ("responder_id" :> r) :
              s \in {2, 5, 7},
              r \in {None} \cup {Some(a) : a \in 1..MaxResponderId}}
        \cup {[id |-> i], [subject |-> SubjectOf(i)]}

ViewResponses(i) ==
    FailedResponses
    \cup {HttpResponse(200, "200 OK", NotJson),
          HttpResponse(200, "200 OK", JsonBody(<<>>))}
    \cup {HttpResponse(200, "200 OK", JsonBody([ticket |-> t])) :
          t \in RawViewTickets(i)}

StatusResponses ==
    FailedResponses
    \cup {HttpResponse(200, "200 OK", NotJson),
          HttpResponse(204, "204 No Content", NotJson)}

-----------------------------------------------------------------------------
(* The process *)

Init ==
    /\ api_key \in ApiKeys
    /\ domain \in Domains
    /\ command \in {"list", "view", "status"}
    /\ args \in CASE command = "list" -> ListArgs
                  [] command = "view" -> ViewArgs
                  [] command = "status" -> StatusCmdArgs
    /\ pc = "start"
    /\ client = None
    /\ body_ran = FALSE
    /\ requests = <<>>
    /\ response = None
    /\ stdout = <<>>
    /\ stderr = None
    /\ exit_code = 0

\* the process ends
Exit(out) ==
    /\ stdout' = stdout \o out.stdout
    /\ stderr' = out.stderr
    /\ exit_code' = out.exit_code
    /\ pc' = "done"

\* the group callback
cli ==
    /\ pc = "start"
    /\ IF ApiKeyMissing(api_key)
          THEN /\ Exit([stdout |-> <<>>,
                        stderr |-> UsageError("API key is required"),
                        exit_code |-> 2])
               /\ UNCHANGED client
          ELSE /\ client' = FreshserviceClient(api_key[1], domain)
               /\ pc' = "dispatch"
               /\ UNCHANGED <<stdout, stderr, exit_code>>
    /\ UNCHANGED <<api_key, domain, command, args, body_ran, requests,
                   response>>

\* click rejects a parameter of the subcommand; the body does not run
BadParameter ==
    /\ pc = "dispatch"
    /\ ~ArgsValid
    /\ Exit([stdout |-> <<>>, stderr |-> UsageError("Invalid value"),
             exit_code |-> 2])
    /\ UNCHANGED <<api_key, domain, command, args, client, body_ran, requests,
                   response>>

list ==
    /\ pc = "dispatch"
    /\ command = "list"
    /\ ArgsValid
    /\ \E resp \in ListResponses :
          LET filters == BuildFilters(args.status, args.priority)
              result == list_tickets(resp, filters, args.limit)
          IN  /\ requests' = Issue(requests, list_tickets_request(client))
              /\ response' = resp
              /\ Exit(ListOutcome(result))
    /\ body_ran' = TRUE
    /\ UNCHANGED <<api_key, domain, command, args, client>>

view ==
    /\ pc = "dispatch"
    /\ command = "view"
    /\ ArgsValid
    /\ \E resp \in ViewResponses(args.ticket_id[1]) :
          LET result == get_ticket(resp)
          IN  /\ requests' = Issue(requests,
                                   get_ticket_request(client, args.ticket_id[1]))
              /\ response' = resp
              /\ Exit(ViewOutcome(result))
    /\ body_ran' = TRUE
    /\ UNCHANGED <<api_key, domain, command, args, client>>

status ==
    /\ pc = "dispatch"
    /\ command = "status"
    /\ ArgsValid
    /\ \E resp \in StatusResponses :
          LET result == update_ticket_status(resp)
          IN  /\ requests' = Issue(requests,
                    update_ticket_status_request(client, args.ticket_id[1],
                                                 status_map[args.status[1]]))
              /\ response' = resp
              /\ Exit(StatusOutcome(result, args.ticket_id[1], args.status[1]))
    /\ body_ran' = TRUE
    /\ UNCHANGED <<api_key, domain, command, args, client>>

Next == cli \/ BadParameter \/ list \/ view \/ status

Spec == Init /\ [][Next]_vars

-----------------------------------------------------------------------------
(* What the claims speak about *)

Done == pc = "done"

\* the body of the named command ran to its end
Ran(cmd) == Done /\ command = cmd /\ body_ran

KeyGiven == api_key # None /\ api_key[1] # ""

\* the server answered with a status outside 2xx
Non2xx == response # None /\ response.kind = "http" /\ response.code \notin 200..299

Is2xx == response # None /\ response.kind = "http" /\ response.code \in 200..299

\* the rows of the table list printed
Rows ==
    LET IsRow(l) == l.kind = "row" IN SelectSeq(stdout, IsRow)

\* list got a `tickets` array (possibly the default, empty one)
GotTickets == Ran("list") /\ Is2xx /\ response.body.json

\* the `tickets` array of the response to list
Returned ==
    IF "tickets" \in DOMAIN response.body.data
        THEN response.body.data["tickets"] ELSE <<>>

\* the code the specification gives for a status name
CodeOf == {<<"open", 2>>, <<"pending", 3>>, <<"resolved", 4>>, <<"closed", 5>>}

\* ticket i of the response passes every filter given on the command line
Matches(i) ==
    /\ args.status # None => <<args.status[1], Returned[i].status>> \in CodeOf
    /\ args.priority # None => Returned[i].priority = args.priority[1]

Matching == {i \in 1..Len(Returned) : Matches(i)}

\* the position in the response of the k-th matching ticket
KthMatching(k) ==
    CHOOSE i \in Matching : Cardinality({j \in Matching : j < i}) = k - 1

-----------------------------------------------------------------------------
\* C1: list --status S shows only tickets whose raw status code in the
\* server's response is the code of S (open=2, pending=3, resolved=4,
\* closed=5), whatever else the server returned.
C1_StatusFilter ==
    (GotTickets /\ args.status # None) =>
        \A k \in 1..Len(Rows) :
            \E i \in 1..Len(Returned) :
                /\ Returned[i].id = Rows[k].id
                /\ <<args.status[1], Returned[i].status>> \in CodeOf

\* list --status open printed a row although the server also returned a
\* ticket that is not open
C1_Witness ==
    /\ GotTickets
    /\ args.status = Some("open")
    /\ Len(Rows) = 1
    /\ \E i \in 1..Len(Returned) : Returned[i].status # 2

\* C2: list --limit N shows at most N tickets, for every integer N that
\* --limit accepts.
C2_AtMostLimit ==
    GotTickets => Len(Rows) <= args.limit

\* C3: for list, view and status, an answer outside 2xx makes the command
\* exit non-zero with an error on stderr that carries the failure reason.
C3_Non2xxFails ==
    (Done /\ body_ran /\ Non2xx) =>
        /\ exit_code # 0
        /\ stderr # None
        /\ stderr.reason = Some([type |-> "HTTPStatusError",
                                 detail |-> response.phrase])

\* list got a 500 and ended with its exception on stderr
C3_Witness ==
    /\ Ran("list")
    /\ Non2xx
    /\ response.code = 500
    /\ exit_code = 1
    /\ stderr.reason = Some([type |-> "HTTPStatusError",
                             detail |-> "500 Internal Server Error"])

\* C4: without an API key (absent or empty) the invocation ends in a usage
\* error; no client is ever constructed, no request issued, no body run.
C4_NoKeyUsageError ==
    ~KeyGiven =>
        /\ client = None
        /\ requests = <<>>
        /\ ~body_ran
        /\ pc \in {"start", "done"}
        /\ Done => (stderr # None /\ stderr.kind = "UsageError" /\ exit_code = 2)

\* an invocation with an empty key ended
C4_Witness ==
    /\ Done
    /\ api_key = Some("")
    /\ exit_code = 2

\* C5: with a limit N >= 0, list shows exactly the first N (or all, if fewer)
\* of the tickets matching every given filter, in the server's order: row k
\* is the k-th matching ticket of the response.
C5_FirstNMatching ==
    (GotTickets /\ args.limit >= 0) =>
        /\ Len(Rows) = Min(args.limit, Cardinality(Matching))
        /\ \A k \in 1..Len(Rows) : Rows[k].id = Returned[KthMatching(k)].id

\* list --status closed --limit 1 on statuses [2, 5, 5] showed the second
\* ticket only
C5_Witness ==
    /\ GotTickets
    /\ args.status = Some("closed")
    /\ args.priority = None
    /\ args.limit = 1
    /\ Len(Returned) = 3
    /\ Returned[1].status = 2 /\ Returned[2].status = 5 /\ Returned[3].status = 5
    /\ Len(Rows) = 1
    /\ Rows[1].id = Returned[2].id

\* C6: in the table, a subject of more than 40 characters is shown as its
\* first 37 characters and "...", a subject of at most 40 characters is shown
\* unchanged; the subject column is never wider than 40 characters.
C6_SubjectColumn ==
    GotTickets =>
        \A k \in 1..Len(Rows) :
            \E i \in 1..Len(Returned) :
                LET s == Returned[i].subject
                    cell == Rows[k].subject
                IN  /\ Returned[i].id = Rows[k].id
                    /\ Len(cell) = 40
                    /\ Len(s) > 40 =>
                          /\ \A c \in 1..37 : cell[c] = s[c]
                          /\ \A c \in 38..40 : cell[c] = "."
                    /\ Len(s) <= 40 =>
                          /\ \A c \in 1..Len(s) : cell[c] = s[c]
                          /\ \A c \in (Len(s) + 1)..40 : cell[c] = " "

\* the table has a row for a subject of more than 40 characters and a row
\* for a shorter one
C6_Witness ==
    /\ GotTickets
    /\ \E k \in 1..Len(Rows) :
          \E i \in 1..Len(Returned) :
              Returned[i].id = Rows[k].id /\ Len(Returned[i].subject) > 40
    /\ \E k \in 1..Len(Rows) :
          \E i \in 1..Len(Returned) :
              Returned[i].id = Rows[k].id /\ Len(Returned[i].subject) < 40

\* the ticket view printed, as the server sent it
Viewed == response.body.data["ticket"]

ViewPrinted == Ran("view") /\ exit_code = 0 /\ Len(stdout) = 1

ApiError ==
    /\ Done /\ body_ran
    /\ \/ response.kind = "network_error"
       \/ Non2xx
       \/ command \in {"list", "view"} /\ ~response.body.json

\* C8: in list, view and status every API error is caught by the command
\* and shown as a click error with a non-zero exit; none leaves the command
\* as an unhandled exception.
C8_ErrorsCaught ==
    ApiError =>
        /\ exit_code # 0
        /\ stderr # None
        /\ stderr.kind = "ClickException"

\* C9: status sends one PUT /tickets/{ticket_id} with the body
\* {"status": code of the name}; the confirmation is printed only when that
\* PUT was answered 2xx, and a failed PUT gives no confirmation, an error and
\* a non-zero exit.
C9_StatusUpdate ==
    Ran("status") =>
        /\ Len(requests) = 1
        /\ requests[1].method = "PUT"
        /\ requests[1].path = "/tickets/{id}"
        /\ requests[1].ticket_id = args.ticket_id
        /\ requests[1].json # None
        /\ DOMAIN requests[1].json[1] = {"status"}
        /\ <<args.status[1], requests[1].json[1]["status"]>> \in CodeOf
        /\ stdout # <<>> => Is2xx
        /\ ~Is2xx => (stdout = <<>> /\ exit_code # 0 /\ stderr # None)

\* status closed was confirmed after the server accepted the PUT
C9_Witness ==
    /\ Ran("status")
    /\ args.status = Some("closed")
    /\ Is2xx
    /\ stdout = <<[kind |-> "confirmation", id |-> args.ticket_id[1],
                   status |-> "closed"]>>
    /\ requests[1].json = Some([status |-> 5])

\* C10: an invocation issues at most one HTTP request, and exactly one when
\* it has an API key and valid arguments; no retry after a failure and no
\* second page for list.
C10_OneRequest ==
    /\ Len(requests) <= 1
    /\ (Done /\ KeyGiven /\ ArgsValid) => Len(requests) = 1
    /\ requests # <<>> => (KeyGiven /\ ArgsValid)

\* list ended after a failed request, which it sent once
C10_Witness ==
    /\ Ran("list")
    /\ Non2xx
    /\ Len(requests) = 1

====
